---- MODULE Spec2Model ----
(***************************************************************************)
(* A model of smucav/InsuranceRiskML: the DataLoader of                    *)
(* scripts/data_loader.py (delimiter sniffing, loading, the cleaning and   *)
(* imputation pipeline, saving) and the HypothesisTesting engine of        *)
(* scripts/hypothesis_testing.py (test selection, p-value adjustment).     *)
(*                                                                         *)
(* A DataFrame is a record [none, cols, rows]: cols is the set of column   *)
(* names, rows the sequence of rows in order, each row [idx, cell] with    *)
(* its pandas index label and its cells (a function on cols).  A missing   *)
(* cell is "NaN" in a text column and <<>> in a numeric column; a number   *)
(* is the fraction <<n, d>> in lowest terms.                               *)
(***************************************************************************)
EXTENDS Integers, Sequences, FiniteSets, TLC

VARIABLES
    file_path,   \* DataLoader.file_path
    file,        \* the input file on disk
    data,        \* DataLoader.data
    delimiter,   \* DataLoader.delimiter
    disk,        \* data/processed/clean_data.csv, NoFile when it was never written
    ret,         \* what the last call returned
    err,         \* the exception the last call raised, "none" when it returned
    op,          \* the last call
    pre,         \* DataLoader.data when the last call began
    read_sep,    \* the sep argument of the last pd.read_csv of load_data
    detect_ran,  \* whether the last call ran detect_delimiter
    arg,         \* the sample_lines of the detect_delimiter the last call ran, else 0
    ht,          \* the HypothesisTesting object and the result of its last call
    csm          \* the ClaimSeverityModel object and the report it wrote

vars == <<file_path, file, data, delimiter, disk, ret, err, op, pre, read_sep,
          detect_ran, arg, ht, csm>>

-----------------------------------------------------------------------------
(* Bounds of the model. *)

MaxRows == 2

MaxLines == 2

-----------------------------------------------------------------------------
(* Cell values. *)

NaN == "NaN"

NaNum == <<>>

NumericColumns ==
    {"totalpremium", "calculatedpremiumperterm", "termfrequency_mapped",
     "adjusted_premium_per_term", "capitaloutstanding"}

MissingOf(c) == IF c \in NumericColumns THEN NaNum ELSE NaN

\* Series.isna / notna on one cell; NaT is the missing datetime.
IsNA(c, v) == IF c \in NumericColumns THEN v = NaNum ELSE v \in {"NaN", "NaT"}

RECURSIVE Gcd(_, _)
Gcd(a, b) == IF b = 0 THEN a ELSE Gcd(b, a % b)

Num(n) == <<n, 1>>

\* x / 1.14, x a fraction: x * 100 / 114 in lowest terms.
DivVat(x) ==
    LET n == x[1] * 100
        d == x[2] * 114
        g == Gcd(n, d)
    IN  IF n = 0 THEN <<0, 1>> ELSE <<n \div g, d \div g>>

-----------------------------------------------------------------------------
(* DataFrames. *)

None == [none |-> TRUE, cols |-> {}, rows |-> <<>>]

Frame(cols, rows) == [none |-> FALSE, cols |-> cols, rows |-> rows]

\* The rows of s at the positions in K, in order.
KeepAt(s, K) ==
    LET F[i \in 0..Len(s)] ==
            IF i = 0 THEN <<>>
            ELSE IF i \in K THEN Append(F[i - 1], s[i]) ELSE F[i - 1]
    IN  F[Len(s)]

Positions(df) == 1..Len(df.rows)

\* df[mask]: boolean indexing keeps the rows whose position is in K.
Mask(df, K) == [df EXCEPT !.rows = KeepAt(df.rows, K)]

\* df[c] = vals: assigns (or adds) a column, vals[i] the value of row i.
SetColumn(df, c, vals) ==
    [df EXCEPT !.cols = df.cols \cup {c},
               !.rows = [i \in Positions(df) |->
                            [idx |-> df.rows[i].idx,
                             cell |-> [k \in df.cols \cup {c} |->
                                          IF k = c THEN vals[i]
                                          ELSE df.rows[i].cell[k]]]]]

\* df.drop(columns=D)
DropColumns(df, D) ==
    [df EXCEPT !.cols = df.cols \ D,
               !.rows = [i \in Positions(df) |->
                            [idx |-> df.rows[i].idx,
                             cell |-> [k \in df.cols \ D |-> df.rows[i].cell[k]]]]]

\* df.drop_duplicates(): the first of every group of equal rows is kept.
DropDuplicates(df) ==
    Mask(df, {i \in Positions(df) :
                \A j \in 1..(i - 1) : df.rows[j].cell # df.rows[i].cell})

\* df.dropna(subset=S): the rows with no missing cell among S.
DropNA(df, S) ==
    Mask(df, {i \in Positions(df) :
                \A c \in S : ~IsNA(c, df.rows[i].cell[c])})

-----------------------------------------------------------------------------
(* DataLoader: the cleaning steps, as functions of the DataFrame.  A step   *)
(* that can raise yields [df, err]: the DataFrame as the step left it and   *)
(* the exception, "none" when it completed.                                 *)

Ok(df) == [df |-> df, err |-> "none"]

Raised(df, e) == [df |-> df, err |-> e]

\* clean_data, "Map termfrequency": Series.map(freq_map), NaN off the map.
FreqMap(v) ==
    IF v = "Monthly" THEN Num(12) ELSE IF v = "Annual" THEN Num(1) ELSE NaNum

MapTermFrequency(df) ==
    IF "termfrequency" \in df.cols
    THEN SetColumn(df, "termfrequency_mapped",
                   [i \in Positions(df) |-> FreqMap(df.rows[i].cell["termfrequency"])])
    ELSE df

\* title_gender_map, in the order the loop visits it.
TitleOrder == <<"Mr", "Mrs", "Ms", "Miss">>

\* A mutant of TitleGender: the entry for Ms reads Male.
TitleGenderMsMale(t) == IF t \in {"Mr", "Ms"} THEN "Male" ELSE "Female"

TitleGender(t) == IF t = "Mr" THEN "Male" ELSE "Female"

\* One turn of the loop: gender is set where it is missing and title matches.
FillGender(df, title) ==
    SetColumn(df, "gender",
              [i \in Positions(df) |->
                  LET cell == df.rows[i].cell
                  IN  IF IsNA("gender", cell["gender"]) /\ cell["title"] = title
                      THEN TitleGender(title)
                      ELSE cell["gender"]])

RECURSIVE FillGenders(_, _)
FillGenders(df, k) ==
    IF k > Len(TitleOrder) THEN df
    ELSE FillGenders(FillGender(df, TitleOrder[k]), k + 1)

\* gender 'Not specified' becomes missing.
ReplaceNotSpecified(df) ==
    SetColumn(df, "gender",
              [i \in Positions(df) |->
                  IF df.rows[i].cell["gender"] = "Not specified" THEN NaN
                  ELSE df.rows[i].cell["gender"]])

\* The rows with title 'Dr' and a missing gender are dropped.
DropAmbiguousDr(df) ==
    Mask(df, {i \in Positions(df) :
                ~(df.rows[i].cell["title"] = "Dr"
                  /\ IsNA("gender", df.rows[i].cell["gender"]))})

impute_gender_from_title(df) ==
    IF "gender" \notin df.cols \/ "title" \notin df.cols THEN df
    ELSE FillGenders(DropAmbiguousDr(ReplaceNotSpecified(df)), 1)

DropMissingNewVehicle(df) ==
    IF "newvehicle" \in df.cols THEN DropNA(df, {"newvehicle"}) ELSE df

required_vehicle_cols ==
    {"maritalstatus", "mmcode", "vehicletype", "make", "model", "cylinders",
     "cubiccapacity", "kilowatts", "bodytype", "numberofdoors", "vehicleintrodate"}

\* A mutant of drop_rows_with_missing_vehicle_info: the rows are dropped
\* on the required columns that are there.
drop_rows_on_present_vehicle_info(df) ==
    DropNA(df, required_vehicle_cols \cap df.cols)

drop_rows_with_missing_vehicle_info(df) ==
    IF required_vehicle_cols \ df.cols # {} THEN df
    ELSE DropNA(df, required_vehicle_cols)

sparse_columns ==
    {"customvalueestimate", "writtenoff", "rebuilt", "converted", "crossborder",
     "numberofvehiclesinfleet"}

drop_sparse_columns(df) == DropColumns(df, sparse_columns \cap df.cols)

\* Series.fillna(x) on column c.
FillNA(df, c, x) ==
    SetColumn(df, c, [i \in Positions(df) |->
                        IF IsNA(c, df.rows[i].cell[c]) THEN x ELSE df.rows[i].cell[c]])

\* The account types of the model in ascending (sorted) order: Series.mode()
\* returns the most frequent values sorted.
AccountTypeOrder == <<"Current account", "Savings account">>

CountOf(df, c, v) == Cardinality({i \in Positions(df) : df.rows[i].cell[c] = v})

\* Series.mode() as the sequence of the most frequent non-missing values.
ModeOf(df, c) ==
    LET present == {k \in 1..Len(AccountTypeOrder) :
                       CountOf(df, c, AccountTypeOrder[k]) > 0}
        best == {k \in present :
                    \A m \in present : CountOf(df, c, AccountTypeOrder[m])
                                         <= CountOf(df, c, AccountTypeOrder[k])}
    IN  [k \in best |-> AccountTypeOrder[k]]

handle_remaining_missing_values(df) ==
    LET d1 == IF "bank" \in df.cols THEN FillNA(df, "bank", "Unknown") ELSE df
        mode == ModeOf(d1, "accounttype")
        first == CHOOSE k \in DOMAIN mode : \A m \in DOMAIN mode : k <= m
        d2 == IF "accounttype" \in d1.cols
              THEN FillNA(d1, "accounttype", mode[first])
              ELSE d1
        d3 == IF "capitaloutstanding" \in d2.cols
              THEN FillNA(d2, "capitaloutstanding", Num(0))
              ELSE d2
    IN  IF "accounttype" \in d1.cols /\ DOMAIN mode = {}
        THEN Raised(d1, "KeyError")        \* mode()[0] of an empty Series
        ELSE Ok(d3)

\* pd.to_datetime(errors='coerce') on one cell: a date becomes a Timestamp,
\* anything else (a missing cell included) NaT.
ToDatetime(v) ==
    IF v \in {"2015-03-01 00:00:00", "2015-03-01", "Timestamp('2015-03-01 00:00:00')"}
    THEN "Timestamp('2015-03-01 00:00:00')"
    ELSE "NaT"

\* Python truthiness of an isvatregistered cell: only False is falsy, a
\* missing cell (NaN) is truthy.
Truthy(v) == v # "False"

\* The lambda of impute_totalpremium; NaN / 1.14 is NaN.
AdjustedPremium(cell) ==
    IF Truthy(cell["isvatregistered"])
    THEN IF cell["calculatedpremiumperterm"] = NaNum THEN NaNum
         ELSE DivVat(cell["calculatedpremiumperterm"])
    ELSE cell["calculatedpremiumperterm"]

required_cols ==
    {"totalpremium", "calculatedpremiumperterm", "termfrequency",
     "transactionmonth", "isvatregistered"}

\* The columns the two diagnostic prints of impute_totalpremium select.
diagnostic_cols ==
    {"policyid", "transactionmonth", "termfrequency", "calculatedpremiumperterm",
     "adjusted_premium_per_term", "totalpremium", "isvatregistered"}

\* A mutant of ZeroPremium: a missing totalpremium counts as zero.
ZeroOrMissingPremium(df) ==
    {i \in Positions(df) : df.rows[i].cell["totalpremium"] \in {Num(0), NaNum}}

\* zero_premium: NaN == 0 is False, so a missing totalpremium is not in it.
ZeroPremium(df) ==
    {i \in Positions(df) : df.rows[i].cell["totalpremium"] = Num(0)}

\* zero_premium & (termfrequency == freq) & transactionmonth.notna()
FreqMask(df, zero, freq) ==
    {i \in zero : /\ df.rows[i].cell["termfrequency"] = freq
                  /\ ~IsNA("transactionmonth", df.rows[i].cell["transactionmonth"])}

\* df.loc[K, 'totalpremium'] = df.loc[K, 'adjusted_premium_per_term']
AssignAdjusted(df, K) ==
    [df EXCEPT !.rows = [i \in Positions(df) |->
        IF i \in K
        THEN [df.rows[i] EXCEPT
                 !.cell["totalpremium"] = df.rows[i].cell["adjusted_premium_per_term"]]
        ELSE df.rows[i]]]

\* emptyApplyRaises: DataFrame.apply(axis=1) on a DataFrame with no rows
\* returns, depending on the pandas build, an empty Series (the assignment
\* works) or a copy of the DataFrame (assigning it to one column raises).
impute_totalpremium(df, emptyApplyRaises) ==
    LET d1 == SetColumn(df, "transactionmonth",
                        [i \in Positions(df) |->
                            ToDatetime(df.rows[i].cell["transactionmonth"])])
        zero == ZeroPremium(d1)
        d2 == SetColumn(d1, "adjusted_premium_per_term",
                        [i \in Positions(d1) |-> AdjustedPremium(d1.rows[i].cell)])
        d3 == AssignAdjusted(d2, FreqMask(d2, zero, "Monthly"))
        d4 == AssignAdjusted(d3, FreqMask(d3, zero, "Annual"))
    IN  IF required_cols \ df.cols # {} THEN Ok(df)
        ELSE IF Len(df.rows) = 0 /\ emptyApplyRaises THEN Raised(d1, "ValueError")
        ELSE IF diagnostic_cols \ d4.cols # {} THEN Raised(d4, "KeyError")
        ELSE Ok(DropColumns(d4, {"adjusted_premium_per_term"}))

-----------------------------------------------------------------------------
(* Files. *)

NoFile == [none |-> TRUE, cols |-> {}, rows |-> <<>>]

\* DataFrame.to_csv(index=False) on one cell: a missing cell (NaN, NaT) is
\* written as an empty field, a midnight Timestamp as its date.
CsvField(c, v) ==
    IF c \in NumericColumns THEN v
    ELSE IF IsNA(c, v) THEN ""
    ELSE IF v = "Timestamp('2015-03-01 00:00:00')" THEN "2015-03-01"
    ELSE v

\* The index is not written: the lines are numbered from 0.
to_csv(df) ==
    Frame(df.cols,
          [i \in Positions(df) |->
              [idx |-> i - 1,
               cell |-> [c \in df.cols |-> CsvField(c, df.rows[i].cell[c])]]])

\* pd.read_csv(save_path) on one field: an empty field is a missing cell.
ReadField(c, v) == IF c \in NumericColumns THEN v ELSE IF v = "" THEN NaN ELSE v

\* pd.read_csv(save_path): the DataFrame of a file written by to_csv, with
\* a fresh RangeIndex.
read_saved(f) ==
    Frame(f.cols,
          [i \in Positions(f) |->
              [idx |-> i - 1,
               cell |-> [c \in f.cols |-> ReadField(c, f.rows[i].cell[c])]]])

\* clean_data as a function: [df, err, saved], saved telling whether
\* save_cleaned_data was reached.
CleanSteps(df, emptyApplyRaises) ==
    LET d1 == DropDuplicates(df)
        d2 == MapTermFrequency(d1)
        d3 == impute_gender_from_title(d2)
        d4 == DropMissingNewVehicle(d3)
        d5 == drop_rows_with_missing_vehicle_info(d4)
        d6 == drop_sparse_columns(d5)
        r7 == handle_remaining_missing_values(d6)
        r8 == impute_totalpremium(r7.df, emptyApplyRaises)
    IN  IF r7.err # "none" THEN r7 ELSE r8

-----------------------------------------------------------------------------
(* DataLoader.detect_delimiter.  A line is a sequence of characters.       *)

delimiters == <<",", "\t", "|", ";", " ">>

DefaultSampleLines == 10

Whitespace == {" ", "\t", "\n", "\r"}

\* str.strip(): leading and trailing whitespace removed.
RECURSIVE LStrip(_)
LStrip(line) ==
    IF line # <<>> /\ Head(line) \in Whitespace THEN LStrip(Tail(line)) ELSE line

RECURSIVE RStrip(_)
RStrip(line) ==
    IF line # <<>> /\ line[Len(line)] \in Whitespace
    THEN RStrip(SubSeq(line, 1, Len(line) - 1))
    ELSE line

Strip(line) == RStrip(LStrip(line))

\* len(line.split(d)): one more than the occurrences of d.
SplitCount(line, d) == Cardinality({i \in 1..Len(line) : line[i] = d}) + 1

\* file.readline().strip(), sample_lines times: '' past the end of the file.
SampledLines(lines, sample_lines) ==
    [i \in 1..sample_lines |-> IF i <= Len(lines) THEN Strip(lines[i]) ELSE <<>>]

RECURSIVE SumCounts(_, _, _)
SumCounts(lines, d, i) ==
    IF i > Len(lines) THEN 0
    ELSE SplitCount(lines[i], d) + SumCounts(lines, d, i + 1)

delimiter_scores(lines, sample_lines) ==
    [k \in 1..Len(delimiters) |->
        SumCounts(SampledLines(lines, sample_lines), delimiters[k], 1)]

\* A mutant of MaxKey: on a tie the last key wins.
MaxKeyLast(scores) ==
    CHOOSE k \in DOMAIN scores :
        /\ \A m \in DOMAIN scores : scores[m] <= scores[k]
        /\ \A m \in DOMAIN scores : scores[m] = scores[k] => m <= k

\* max(delimiter_scores, key=delimiter_scores.get): the first key, in
\* insertion order, whose score no other exceeds.
MaxKey(scores) ==
    CHOOSE k \in DOMAIN scores :
        /\ \A m \in DOMAIN scores : scores[m] <= scores[k]
        /\ \A m \in DOMAIN scores : scores[m] = scores[k] => k <= m

detect_delimiter(lines, sample_lines) ==
    delimiters[MaxKey(delimiter_scores(lines, sample_lines))]

-----------------------------------------------------------------------------
(* DataLoader.load_data.  The input file is [exists, lines, sep, table]:   *)
(* lines is its text, as detect_delimiter reads it; table is the DataFrame *)
(* pd.read_csv makes of it when given the file's own separator sep.        *)

TxtPath == "data/raw/MachineLearningRating_v3.txt"

CsvPath == "data/raw/MachineLearningRating_v3.csv"

\* file_path.endswith('.csv')
EndsWithCsv(path) == path = CsvPath

\* col.strip().lower().replace(' ', '_') on the header names of the model.
StandardNames ==
    {<<"Gender", "gender">>, <<"Title", "title">>,
     <<"TotalPremium", "totalpremium">>,
     <<"CalculatedPremiumPerTerm", "calculatedpremiumperterm">>,
     <<"TermFrequency", "termfrequency">>,
     <<"TransactionMonth", "transactionmonth">>,
     <<"IsVATRegistered", "isvatregistered">>,
     <<"PolicyID", "policyid">>, <<"Policy ID", "policy_id">>,
     <<"NewVehicle", "newvehicle">>, <<"MaritalStatus", "maritalstatus">>,
     <<"Mmcode", "mmcode">>, <<"VehicleType", "vehicletype">>,
     <<"Make", "make">>, <<"Model", "model">>, <<"Cylinders", "cylinders">>,
     <<"Cubiccapacity", "cubiccapacity">>, <<"Kilowatts", "kilowatts">>,
     <<"Bodytype", "bodytype">>, <<"NumberOfDoors", "numberofdoors">>,
     <<"VehicleIntroDate", "vehicleintrodate">>,
     <<"CustomValueEstimate", "customvalueestimate">>,
     <<"WrittenOff", "writtenoff">>, <<"Rebuilt", "rebuilt">>,
     <<"Converted", "converted">>, <<"CrossBorder", "crossborder">>,
     <<"NumberOfVehiclesInFleet", "numberofvehiclesinfleet">>,
     <<"Bank", "bank">>, <<"AccountType", "accounttype">>,
     <<"CapitalOutstanding ", "capitaloutstanding">>,
     <<"Header Line", "header_line">>}

StandardName(col) == (CHOOSE p \in StandardNames : p[1] = col)[2]

\* self.data.columns = [standardised names]
Standardize(df) ==
    LET raw(c) == CHOOSE k \in df.cols : StandardName(k) = c
        names == {StandardName(k) : k \in df.cols}
    IN  Frame(names,
              [i \in Positions(df) |->
                  [idx |-> df.rows[i].idx,
                   cell |-> [c \in names |-> df.rows[i].cell[raw(c)]]]])

\* What read_csv makes of the file with another separator than its own: no
\* line is split, the header line names the one column.
Unsplit(table) ==
    Frame({"Header Line"},
          [i \in Positions(table) |->
              [idx |-> table.rows[i].idx, cell |-> [c \in {"Header Line"} |-> "line"]]])

read_csv(f, sep) == IF sep = f.sep THEN f.table ELSE Unsplit(f.table)

Returned(df, str) == [df |-> df, str |-> str]

ReturnedNone == Returned(None, "None")

-----------------------------------------------------------------------------
(* DataLoader: the calls. *)

\* The sample_lines arguments of the model's detect_delimiter calls.
SampleLineArgs == {1, DefaultSampleLines}

\* detect_delimiter(sample_lines): open() raises when the file is missing.
DetectDelimiter(sample_lines) ==
    /\ op' = "detect_delimiter"
    /\ pre' = data
    /\ detect_ran' = TRUE
    /\ arg' = sample_lines
    /\ IF file.exists
       THEN /\ delimiter' = detect_delimiter(file.lines, sample_lines)
            /\ ret' = Returned(None, delimiter')
            /\ err' = "none"
       ELSE /\ delimiter' = delimiter
            /\ ret' = ReturnedNone
            /\ err' = "FileNotFoundError"
    /\ UNCHANGED <<file_path, file, data, disk, read_sep, ht, csm>>

\* load_data: sep is computed and never used, read_csv is given
\* self.delimiter.  read_csv raises on a file without lines (EmptyDataError,
\* re-raised as Exception).  With sep=None it falls back to the python
\* engine, which either refuses low_memory=False (ValueError, re-raised as
\* Exception) or sniffs a separator, depending on the pandas build.  The
\* refusal comes before the file is opened, so with sep=None a missing file
\* is reported by the one build as Exception, by the other as
\* FileNotFoundError; detect_delimiter opens the file itself.
LoadData ==
    LET csv == EndsWithCsv(file_path)
        detects == ~csv /\ delimiter = "None"
        d == IF detects THEN detect_delimiter(file.lines, DefaultSampleLines)
             ELSE delimiter
    IN  /\ op' = "load_data"
        /\ pre' = data
        /\ detect_ran' = detects
        /\ arg' = IF detects THEN DefaultSampleLines ELSE 0
        /\ IF ~file.exists
           THEN /\ err' \in IF ~detects /\ delimiter = "None"
                            THEN {"Exception", "FileNotFoundError"}
                            ELSE {"FileNotFoundError"}
                /\ ret' = ReturnedNone
                /\ UNCHANGED <<data, delimiter, read_sep>>
           ELSE /\ delimiter' = d
                /\ read_sep' = d
                /\ \/ /\ d # "None" /\ file.lines # <<>>
                      /\ data' = Standardize(read_csv(file, d))
                      /\ ret' = Returned(data', "None")
                      /\ err' = "none"
                   \/ /\ d = "None" \/ file.lines = <<>>
                      /\ err' = "Exception"
                      /\ ret' = ReturnedNone
                      /\ data' = data
                   \/ /\ d = "None" /\ file.lines # <<>>
                      /\ \E k \in DOMAIN delimiters :
                            data' = Standardize(read_csv(file, delimiters[k]))
                      /\ ret' = Returned(data', "None")
                      /\ err' = "none"
        /\ UNCHANGED <<file_path, file, disk, ht, csm>>

\* The outcomes of DataFrame.apply(axis=1) to choose from: both when the
\* DataFrame has no rows, where alone they differ.
EmptyApplyOutcomes(df) == IF Len(df.rows) = 0 THEN BOOLEAN ELSE {FALSE}

\* A mutant of SaveCleanedData: no check that data was loaded.
SaveCleanedDataUnguarded ==
    /\ op' = "save_cleaned_data"
    /\ pre' = data
    /\ detect_ran' = FALSE
    /\ arg' = 0
    /\ ret' = ReturnedNone
    /\ err' = "none"
    /\ disk' = to_csv(data)
    /\ UNCHANGED <<file_path, file, data, delimiter, read_sep, ht, csm>>

\* save_cleaned_data()
SaveCleanedData ==
    /\ op' = "save_cleaned_data"
    /\ pre' = data
    /\ detect_ran' = FALSE
    /\ arg' = 0
    /\ ret' = ReturnedNone
    /\ IF data.none
       THEN /\ err' = "ValueError"
            /\ disk' = disk
       ELSE /\ err' = "none"
            /\ disk' = to_csv(data)
    /\ UNCHANGED <<file_path, file, data, delimiter, read_sep, ht, csm>>

\* clean_data(): every step, then the save and the reload.
CleanData ==
    /\ op' = "clean_data"
    /\ pre' = data
    /\ detect_ran' = FALSE
    /\ arg' = 0
    /\ IF data.none
       THEN /\ err' = "ValueError"
            /\ ret' = ReturnedNone
            /\ UNCHANGED <<data, disk>>
       ELSE \E emptyApplyRaises \in BOOLEAN :
               LET r == CleanSteps(data, emptyApplyRaises)
               IN  /\ data' = r.df
                   /\ err' = r.err
                   /\ IF r.err = "none"
                      THEN /\ disk' = to_csv(r.df)
                           /\ ret' = Returned(read_saved(disk'), "None")
                      ELSE /\ disk' = disk
                           /\ ret' = ReturnedNone
    /\ UNCHANGED <<file_path, file, delimiter, read_sep, ht, csm>>

\* A cleaning step called on its own: on a loader without data the first
\* read of self.data.columns raises AttributeError.
StepCall(name, result) ==
    /\ op' = name
    /\ pre' = data
    /\ detect_ran' = FALSE
    /\ arg' = 0
    /\ ret' = ReturnedNone
    /\ IF data.none
       THEN /\ err' = "AttributeError"
            /\ data' = data
       ELSE /\ err' = result.err
            /\ data' = result.df
    /\ UNCHANGED <<file_path, file, delimiter, disk, read_sep, ht, csm>>

ImputeGenderFromTitle ==
    StepCall("impute_gender_from_title", Ok(impute_gender_from_title(data)))

DropRowsWithMissingVehicleInfo ==
    StepCall("drop_rows_with_missing_vehicle_info",
             Ok(drop_rows_with_missing_vehicle_info(data)))

DropSparseColumns == StepCall("drop_sparse_columns", Ok(drop_sparse_columns(data)))

HandleRemainingMissingValues ==
    StepCall("handle_remaining_missing_values", handle_remaining_missing_values(data))

ImputeTotalPremium ==
    \E emptyApplyRaises \in EmptyApplyOutcomes(data) :
        StepCall("impute_totalpremium", impute_totalpremium(data, emptyApplyRaises))

LoaderNext ==
    \/ \E n \in SampleLineArgs : DetectDelimiter(n)
    \/ LoadData
    \/ CleanData
    \/ SaveCleanedData
    \/ ImputeGenderFromTitle
    \/ DropRowsWithMissingVehicleInfo
    \/ DropSparseColumns
    \/ HandleRemainingMissingValues
    \/ ImputeTotalPremium

-----------------------------------------------------------------------------
(* The input files of the model. *)

\* The rows over the columns of spec, a sequence of <<column, values>>.
RECURSIVE RowsOver(_)
RowsOver(spec) ==
    IF spec = <<>> THEN {<<>>}
    ELSE {(spec[1][1] :> v) @@ r : v \in spec[1][2], r \in RowsOver(Tail(spec))}

Fixed(cols, v) == [i \in 1..Len(cols) |-> <<cols[i], {v}>>]

VehicleRest ==
    <<"Mmcode", "VehicleType", "Model", "Cylinders", "Cubiccapacity", "Kilowatts",
      "Bodytype", "NumberOfDoors", "VehicleIntroDate">>

GoodMonth == "2015-03-01 00:00:00"

Premium(total, freq, month, vat, id) ==
    RowsOver(<< <<"TotalPremium", total>>, <<"CalculatedPremiumPerTerm", {Num(114)}>>,
                <<"TermFrequency", freq>>, <<"TransactionMonth", month>>,
                <<"IsVATRegistered", vat>>, <<id, {"12827"}>> >>)

\* Each schema is the set of rows a file of that shape may hold.
Schemas ==
    { \* gender and title
      RowsOver(<< <<"Gender", {NaN, "Male"}>>, <<"Title", {"Mr", "Dr"}>> >>),
      RowsOver(<< <<"Gender", {"Not specified", "Female"}>>,
                  <<"Title", {"Mrs", "Dr"}>> >>),
      RowsOver(<< <<"Gender", {NaN, "Female"}>>, <<"Title", {"Ms", "Miss"}>> >>),
      RowsOver(<< <<"Gender", {NaN, "Not specified"}>>, <<"Title", {NaN, "Mr"}>> >>),
      \* no gender column
      RowsOver(<< <<"Title", {"Mr", "Dr"}>>, <<"Rebuilt", {NaN, "No"}>> >>),
      \* the premium columns
      Premium({Num(0), NaNum}, {"Monthly"}, {GoodMonth}, {"True", "False"}, "PolicyID"),
      Premium({Num(0), Num(25)}, {"Annual", "Quarterly"}, {GoodMonth}, {"False"},
              "PolicyID"),
      Premium({Num(0)}, {"Annual"}, {GoodMonth, "March"}, {"True", NaN}, "PolicyID"),
      \* the premium columns under a header 'Policy ID'
      Premium({Num(0), Num(25)}, {"Monthly"}, {GoodMonth}, {"True"}, "Policy ID"),
      \* no isvatregistered column
      RowsOver(<< <<"TotalPremium", {Num(0), NaNum}>>,
                  <<"CalculatedPremiumPerTerm", {Num(114)}>>,
                  <<"TermFrequency", {"Monthly"}>>,
                  <<"TransactionMonth", {GoodMonth}>>,
                  <<"PolicyID", {"12827"}>> >>),
      \* the vehicle columns
      RowsOver(<< <<"NewVehicle", {NaN, "More than 6 months"}>>,
                  <<"MaritalStatus", {NaN, "Not specified"}>>,
                  <<"Make", {"TOYOTA"}>> >>
               \o Fixed(VehicleRest, "x")),
      RowsOver(<< <<"MaritalStatus", {NaN, "Not specified"}>>,
                  <<"Make", {NaN, "TOYOTA"}>> >>
               \o Fixed(VehicleRest, "x")),
      \* the vehicle columns but two
      RowsOver(<< <<"MaritalStatus", {NaN, "Not specified"}>>,
                  <<"Make", {NaN, "TOYOTA"}>> >>
               \o Fixed(SubSeq(VehicleRest, 1, 7), "x")),
      \* sparse columns
      RowsOver(<< <<"Bank", {"ABSA Bank"}>>,
                  <<"Rebuilt", {NaN, "No"}>>,
                  <<"CrossBorder", {NaN, "No"}>> >>),
      \* the columns with a fill policy
      RowsOver(<< <<"Bank", {NaN, "ABSA Bank"}>>,
                  <<"AccountType", {NaN, "Current account"}>> >>),
      RowsOver(<< <<"AccountType", {NaN, "Current account", "Savings account"}>>,
                  <<"CapitalOutstanding ", {NaNum}>> >>),
      RowsOver(<< <<"AccountType", {"Savings account"}>>,
                  <<"CapitalOutstanding ", {NaNum, Num(5)}>> >>) }

\* read_csv numbers the rows from 0.
TableOf(rows) ==
    Frame(IF Len(rows) = 0 THEN {} ELSE DOMAIN rows[1],
          [i \in 1..Len(rows) |-> [idx |-> i - 1, cell |-> rows[i]]])

Tables ==
    UNION {{TableOf(rows) : rows \in UNION {[1..n -> S] : n \in 1..MaxRows}}
           : S \in Schemas}

\* The same with the header alone: a file without data lines.
EmptyTables == {Frame(DOMAIN (CHOOSE r \in S : TRUE), <<>>) : S \in Schemas}

PipeLine == <<"a", "|", "b", "|", "c">>

NoHT == [none |-> TRUE]

NoModel == [none |-> TRUE]

\* A DataLoader as __init__ leaves it.
Constructed ==
    /\ data = None
    /\ delimiter = "None"
    /\ disk = NoFile
    /\ ret = ReturnedNone
    /\ err = "none"
    /\ op = "__init__"
    /\ pre = None
    /\ read_sep = "None"
    /\ detect_ran = FALSE
    /\ arg = 0
    /\ ht = NoHT

\* The loader of run_data_cleaning.py on a pipe-separated file with any of
\* the tables.
Init ==
    /\ file_path = TxtPath
    /\ \E t \in Tables \cup EmptyTables :
          file = [exists |-> TRUE, lines |-> <<PipeLine, PipeLine>>,
                  sep |-> "|", table |-> t]
    /\ Constructed
    /\ csm = NoModel

Next == LoaderNext

Spec == Init /\ [][Next]_vars

\* The lines a file of the model is made of.
SampleLines ==
    { <<>>,
      <<"a", ",", "b">>,
      <<"a", "\t", "b">>,
      <<"a", "|", "b", "|", "c">>,
      <<"a", ";", "b", ";", "c">>,
      <<"a", " ", "b", ",", "c">>,
      <<" ", "a", "|", "b", "\t", "\r">> }

Files == UNION {[1..n -> SampleLines] : n \in 0..MaxLines}

SmallTable ==
    TableOf(<<("Gender" :> NaN) @@ ("Title" :> "Mr"),
              ("Gender" :> "Male") @@ ("Title" :> "Mr")>>)

\* A loader on a .txt or .csv path, the file missing or holding any lines.
InitDelim ==
    /\ file_path \in {TxtPath, CsvPath}
    /\ \E e \in BOOLEAN, l \in Files :
          file = [exists |-> e, lines |-> IF e THEN l ELSE <<>>,
                  sep |-> "|",
                  table |-> IF e /\ l # <<>> THEN SmallTable ELSE None]
    /\ Constructed
    /\ csm = NoModel

\* The calls that read the input file, and the two that need loaded data.
NextDelim ==
    \/ \E n \in SampleLineArgs : DetectDelimiter(n)
    \/ LoadData
    \/ CleanData
    \/ SaveCleanedData

SpecDelim == InitDelim /\ [][NextDelim]_vars

-----------------------------------------------------------------------------
(* HypothesisTesting (hypothesis_testing.py).                              *)
(*                                                                         *)
(* Its DataFrame is kept run-length encoded: rows is a sequence of row     *)
(* classes [cell, n], n >= 1 consecutive rows with the same cells.  The    *)
(* money columns hold integers.  A p-value is a fraction <<n, d>>; the     *)
(* p-value a scipy test computes from a sample is an input of the call.    *)

\* The smallest cell count chi_squared_test accepts.
MinExpected == 5

\* A zone is valid with more claims than this.
MinClaims == 10

\* The smallest sample t_test accepts.
MinSample == 2

\* The fewest zones a risk segment takes.
MinSelect == 2

HTFrame(cols, rows) == [cols |-> cols, rows |-> rows]

RECURSIVE RowCount(_)
RowCount(rows) ==
    IF rows = <<>> THEN 0 ELSE Head(rows).n + RowCount(Tail(rows))

\* A mutant of HypothesisTesting: the constructor keeps every row.
HypothesisTestingUnfiltered(df) ==
    HTFrame(df.cols \cup {"has_claim", "margin"},
            [i \in DOMAIN df.rows |->
                [cell |-> ("has_claim" :> IF df.rows[i].cell["totalclaims"] > 0
                                          THEN 1 ELSE 0)
                          @@ ("margin" :> df.rows[i].cell["totalpremium"]
                                          - df.rows[i].cell["totalclaims"])
                          @@ df.rows[i].cell,
                 n |-> df.rows[i].n]])

\* __init__: the rows with a positive premium and no negative claims, with
\* the has_claim and margin columns, in a copy of the DataFrame passed.
HypothesisTesting(df) ==
    LET kept == SelectSeq(df.rows, LAMBDA r : /\ r.cell["totalpremium"] > 0
                                              /\ r.cell["totalclaims"] >= 0)
        derived(c) ==
            ("has_claim" :> IF c["totalclaims"] > 0 THEN 1 ELSE 0)
            @@ ("margin" :> c["totalpremium"] - c["totalclaims"])
            @@ c
    IN  HTFrame(df.cols \cup {"has_claim", "margin"},
                [i \in DOMAIN kept |-> [cell |-> derived(kept[i].cell),
                                        n |-> kept[i].n]])

\* self.data[self.data[group_col].isin(groups)]
IsIn(rows, group_col, groups) ==
    SelectSeq(rows, LAMBDA r : r.cell[group_col] \in groups)

\* pd.crosstab(rows[group_col], rows['has_claim']): one line per group and
\* one column per has_claim value that occurs, rows without a group dropped.
crosstab(rows, group_col) ==
    LET known == SelectSeq(rows, LAMBDA r : r.cell[group_col] # NaN)
        index == {known[i].cell[group_col] : i \in DOMAIN known}
        columns == {known[i].cell["has_claim"] : i \in DOMAIN known}
    IN  [index |-> index,
         columns |-> columns,
         count |-> [g \in index, h \in columns |->
                      RowCount(SelectSeq(known,
                          LAMBDA r : r.cell[group_col] = g /\ r.cell["has_claim"] = h))]]

\* contingency_table.min().min()
TableMin(t) ==
    LET counts == {t.count[g, h] : g \in t.index, h \in t.columns}
    IN  CHOOSE m \in counts : \A c \in counts : m <= c

One == <<1, 1>>

\* The p-value of chi2_contingency: 1 for a table of one line, which has no
\* degree of freedom, else the p computed from the table.
chi2_contingency(t, p) == IF Cardinality(t.index) < 2 THEN One ELSE p

NoResult == [test |-> "None"]

Result(test, group_a, group_b, metric, p) ==
    [test |-> test, group_a |-> group_a, group_b |-> group_b,
     metric |-> metric, p_value |-> p]

chi_squared_test(df, group_col, group_a, group_b, p) ==
    LET df_subset == IsIn(df.rows, group_col, {group_a, group_b})
        contingency_table == crosstab(df_subset, group_col)
    IN  IF \/ Cardinality(contingency_table.columns) < 2
           \/ TableMin(contingency_table) < MinExpected
        THEN NoResult
        ELSE Result("Chi-Squared", group_a, group_b, "claim_frequency",
                    chi2_contingency(contingency_table, p))

\* len(group_values) of t_test for one group and a metric.
SampleSize(rows, group_col, group, metric) ==
    RowCount(SelectSeq(rows,
        LAMBDA r : /\ r.cell[group_col] = group
                   /\ metric = "claim_severity" => r.cell["totalclaims"] > 0))

t_test(df, group_col, group_a, group_b, metric, p) ==
    LET df_subset == IsIn(df.rows, group_col, {group_a, group_b})
    IN  IF \/ SampleSize(df_subset, group_col, group_a, metric) < MinSample
           \/ SampleSize(df_subset, group_col, group_b, metric) < MinSample
        THEN NoResult
        ELSE Result("T-Test", group_a, group_b, metric, p)

\* The sorted order of the zones, the index order of a groupby.
ZoneOrder == <<"Z1", "Z2", "Z3", "Z4">>

\* The values of a column that occur, as value_counts indexes them.
Present(rows, col) == {rows[i].cell[col] : i \in DOMAIN rows} \ {NaN}

\* The claim_frequency column of calculate_metrics(group_col), one entry
\* per group in index order: the mean of has_claim as claims / rows.
calculate_metrics(df, group_col) ==
    LET keys == SelectSeq(ZoneOrder, LAMBDA z : z \in Present(df.rows, group_col))
        rowsOf(z) == SelectSeq(df.rows, LAMBDA r : r.cell[group_col] = z)
    IN  [k \in DOMAIN keys |->
            [key |-> keys[k],
             claim_frequency |->
                <<RowCount(SelectSeq(rowsOf(keys[k]), LAMBDA r : r.cell["has_claim"] = 1)),
                  RowCount(rowsOf(keys[k]))>>]]

\* claim_counts[claim_counts > 10].index
valid_zones(df) ==
    LET claims == SelectSeq(df.rows, LAMBDA r : r.cell["has_claim"] = 1)
    IN  {z \in Present(claims, "maincrestazone") :
            RowCount(SelectSeq(claims, LAMBDA r : r.cell["maincrestazone"] = z))
                > MinClaims}

FracLess(a, b) == a[1] * b[2] < b[1] * a[2]

FracEq(a, b) == a[1] * b[2] = b[1] * a[2]

Frac(n, d) == LET g == Gcd(n, d) IN IF n = 0 THEN <<0, 1>> ELSE <<n \div g, d \div g>>

FracMin(S) == CHOOSE a \in S : \A b \in S : ~FracLess(b, a)

\* Series.nlargest(n).index: the n largest, the first of equal values first.
nlargest(metrics, n) ==
    {metrics[i].key : i \in {i \in DOMAIN metrics :
        Cardinality({j \in DOMAIN metrics :
            \/ FracLess(metrics[i].claim_frequency, metrics[j].claim_frequency)
            \/ /\ FracEq(metrics[i].claim_frequency, metrics[j].claim_frequency)
               /\ j < i}) < n}}

\* Series.nsmallest(n).index
nsmallest(metrics, n) ==
    {metrics[i].key : i \in {i \in DOMAIN metrics :
        Cardinality({j \in DOMAIN metrics :
            \/ FracLess(metrics[j].claim_frequency, metrics[i].claim_frequency)
            \/ /\ FracEq(metrics[i].claim_frequency, metrics[j].claim_frequency)
               /\ j < i}) < n}}

\* max(2, int(0.2 * n_zones))
n_select(n_zones) ==
    IF (2 * n_zones) \div 10 > MinSelect THEN (2 * n_zones) \div 10 ELSE MinSelect

\* The lambda that labels a zone.
zone_group(x, high_risk, low_risk) ==
    IF x \in high_risk THEN "High Risk"
    ELSE IF x \in low_risk THEN "Low Risk" ELSE NaN

\* self.data['zone_group'] = self.data['maincrestazone'].apply(...)
AssignZoneGroup(df, high_risk, low_risk) ==
    HTFrame(df.cols \cup {"zone_group"},
            [i \in DOMAIN df.rows |->
                [cell |-> ("zone_group" :> zone_group(df.rows[i].cell["maincrestazone"],
                                                      high_risk, low_risk))
                          @@ df.rows[i].cell,
                 n |-> df.rows[i].n]])

\* A mutant of FisherApplies: the Fisher test is run on whatever table
\* chi_squared_test refused.
FisherAppliesAlways(contingency_table) == TRUE

\* Whether the Fisher test is run on the table chi_squared_test refused.
FisherApplies(contingency_table) == Cardinality(contingency_table.columns) = 2

\* fisher_exact takes a 2x2 table; what it does with another shape depends
\* on the scipy build: ValueError, or a p-value.
FisherShapeOk(t) == Cardinality(t.index) = 2 /\ Cardinality(t.columns) = 2

\* multipletests(p_values, method='fdr_bh'): sort, scale the k-th smallest
\* of m by m / k, take the running minimum from the largest down, cap at 1,
\* and put the values back in the order given.
multipletests(p_values) ==
    LET m == Len(p_values)
        rank(i) == 1 + Cardinality({j \in 1..m :
                          \/ FracLess(p_values[j], p_values[i])
                          \/ FracEq(p_values[j], p_values[i]) /\ j < i})
        sorted == [k \in 1..m |-> p_values[CHOOSE i \in 1..m : rank(i) = k]]
        raw == [k \in 1..m |-> Frac(sorted[k][1] * m, sorted[k][2] * k)]
        corrected == [k \in 1..m |-> FracMin({raw[l] : l \in k..m})]
        capped == [k \in 1..m |->
                      IF FracLess(One, corrected[k]) THEN One ELSE corrected[k]]
    IN  [i \in 1..m |-> capped[rank(i)]]

\* The p-values a single test may compute.
PValues == {<<1, 100>>, <<1, 2>>}

\* The tests of one run, in the order they are made.
Slots ==
    <<"province_chi", "province_t", "zone_frequency", "zone_severity",
      "zone_margin", "gender_chi", "gender_t">>

Spread == <<<<1, 100>>, <<1, 50>>, <<1, 25>>, <<1, 20>>, <<1, 10>>, <<1, 4>>, <<1, 2>>>>

\* The p-values the tests of one run may compute: rising or falling along
\* the run, all equal, or small and large in turn.
PAssignments ==
    {[k \in DOMAIN Slots |-> Spread[k]],
     [k \in DOMAIN Slots |-> Spread[Len(Slots) + 1 - k]],
     [k \in DOMAIN Slots |-> <<1, 20>>],
     [k \in DOMAIN Slots |-> IF k % 2 = 1 THEN <<1, 100>> ELSE <<1, 2>>]}

\* The p-value an assignment gives the test of a slot.
PValueOf(pv, slot) == pv[CHOOSE k \in DOMAIN Slots : Slots[k] = slot]

\* pd.DataFrame(results) of a list that may hold None: a table of the
\* results; AttributeError when a None follows a first dict; one object
\* column holding the entries as they are when the first entry is None.
pd_DataFrame(results) ==
    IF \A i \in DOMAIN results : results[i] # NoResult
    THEN [err |-> "none", table |-> results]
    ELSE IF results[1] # NoResult
         THEN [err |-> "AttributeError", table |-> <<>>]
         ELSE [err |-> "none", table |-> results]

\* run_hypothesis_tests on df, pv the p-value each test computes: the data
\* it leaves, whether it reached the zone comparison, and the table it
\* returns or the exception it raises.
run_hypothesis_tests(df, pv, fisherRaises) ==
    LET province ==
            <<chi_squared_test(df, "province", "Gauteng", "KwaZulu-Natal",
                               PValueOf(pv, "province_chi")),
              t_test(df, "province", "Gauteng", "KwaZulu-Natal",
                     "claim_severity", PValueOf(pv, "province_t"))>>
        hasZone == "maincrestazone" \in df.cols
        zone_metrics ==
            IF hasZone
            THEN SelectSeq(calculate_metrics(df, "maincrestazone"),
                           LAMBDA z : z.key \in valid_zones(df))
            ELSE <<>>
        enough == Len(zone_metrics) >= 2
        n_sel == n_select(Len(zone_metrics))
        grouped == IF hasZone /\ enough
                   THEN AssignZoneGroup(df, nlargest(zone_metrics, n_sel),
                                        nsmallest(zone_metrics, n_sel))
                   ELSE df
        df_zone == SelectSeq(grouped.rows, LAMBDA r : r.cell["zone_group"] # NaN)
        chi_result == chi_squared_test(grouped, "zone_group", "High Risk",
                                       "Low Risk", PValueOf(pv, "zone_frequency"))
        contingency_table == crosstab(df_zone, "zone_group")
        fisher == chi_result = NoResult /\ FisherApplies(contingency_table)
        frequency ==
            IF chi_result # NoResult THEN <<chi_result>>
            ELSE IF fisher
                 THEN <<Result("Fisher Exact", "High Risk", "Low Risk",
                               "claim_frequency", PValueOf(pv, "zone_frequency"))>>
                 ELSE <<>>
        zone ==
            IF hasZone
            THEN frequency \o
                 <<t_test(grouped, "zone_group", "High Risk", "Low Risk",
                          "claim_severity", PValueOf(pv, "zone_severity")),
                   t_test(grouped, "zone_group", "High Risk", "Low Risk",
                          "margin", PValueOf(pv, "zone_margin"))>>
            ELSE <<>>
        gender_counts == Present(grouped.rows, "gender")
        gender ==
            IF "Female" \in gender_counts /\ "Male" \in gender_counts
            THEN <<chi_squared_test(grouped, "gender", "Female", "Male",
                                    PValueOf(pv, "gender_chi")),
                   t_test(grouped, "gender", "Female", "Male",
                          "claim_severity", PValueOf(pv, "gender_t"))>>
            ELSE <<>>
        results == SelectSeq(province \o zone \o gender,
                             LAMBDA r : r # NoResult)
        p_adjusted == multipletests([i \in DOMAIN results |-> results[i].p_value])
    IN  IF hasZone /\ ~enough
        THEN [data |-> df, reached |-> FALSE] @@ pd_DataFrame(province)
        ELSE IF hasZone /\ fisher /\ ~FisherShapeOk(contingency_table) /\ fisherRaises
        THEN [data |-> grouped, reached |-> TRUE, err |-> "ValueError",
              table |-> <<>>]
        ELSE [data |-> grouped, reached |-> hasZone, err |-> "none",
              table |-> [i \in DOMAIN results |->
                            [p_value_adjusted |-> p_adjusted[i]] @@ results[i]]]

\* The directories save_results can meet, relative to the working directory,
\* and a file path as its directory and its name.
NoPath == [none |-> TRUE]

Path(dir, name) == [none |-> FALSE, dir |-> dir, name |-> name]

\* A HypothesisTesting object constructed on df: its data, the caller's
\* DataFrame it was passed, and of its last call the arguments, the data it
\* began with and whether it reached the zone comparison.
HTObject(df) ==
    [none |-> FALSE, data |-> HypothesisTesting(df), passed |-> df,
     args |-> <<>>, before |-> HypothesisTesting(df), reached |-> FALSE,
     dirs |-> {"plots"}, made |-> {"plots"}, target |-> NoPath,
     message |-> NoPath]

\* One call on the HypothesisTesting object.
HTCall(name, args, result, error, d, reached) ==
    /\ ~ht.none
    /\ op' = name
    /\ ret' = result
    /\ err' = error
    /\ ht' = [ht EXCEPT !.data = d, !.before = ht.data, !.args = args,
                        !.reached = reached]
    /\ UNCHANGED <<file_path, file, data, delimiter, disk, pre, read_sep,
                   detect_ran, arg, csm>>

\* The groups the tests are asked to compare.
GroupArgs ==
    {<<"province", "Gauteng", "KwaZulu-Natal">>,
     <<"province", "Gauteng", "Limpopo">>,
     <<"gender", "Female", "Male">>,
     <<"zone_group", "High Risk", "Low Risk">>}

\* The comparisons t_test is asked for.
MetricArgs ==
    {<<"province", "Gauteng", "KwaZulu-Natal", "claim_severity">>,
     <<"zone_group", "High Risk", "Low Risk", "margin">>,
     <<"gender", "Female", "Male", "claim_severity">>}

ChiSquaredTest(group_col, group_a, group_b) ==
    \E p \in PValues :
        IF group_col \in ht.data.cols
        THEN HTCall("chi_squared_test", <<group_col, group_a, group_b>>,
                    [result |-> chi_squared_test(ht.data, group_col, group_a,
                                                 group_b, p)],
                    "none", ht.data, FALSE)
        ELSE HTCall("chi_squared_test", <<group_col, group_a, group_b>>,
                    ReturnedNone, "KeyError", ht.data, FALSE)

TTest(group_col, group_a, group_b, metric) ==
    \E p \in PValues :
        IF group_col \in ht.data.cols
        THEN HTCall("t_test", <<group_col, group_a, group_b, metric>>,
                    [result |-> t_test(ht.data, group_col, group_a, group_b,
                                       metric, p)],
                    "none", ht.data, FALSE)
        ELSE HTCall("t_test", <<group_col, group_a, group_b, metric>>,
                    ReturnedNone, "KeyError", ht.data, FALSE)

RunHypothesisTests ==
    \E pv \in PAssignments, fisherRaises \in BOOLEAN :
        \E r \in {run_hypothesis_tests(ht.data, pv, fisherRaises)} :
            HTCall("run_hypothesis_tests", <<>>,
                   IF r.err = "none" THEN [table |-> r.table] ELSE ReturnedNone,
                   r.err, r.data, r.reached)

HTNext ==
    \/ \E g \in GroupArgs : ChiSquaredTest(g[1], g[2], g[3])
    \/ \E g \in MetricArgs : TTest(g[1], g[2], g[3], g[4])
    \/ RunHypothesisTests

\* n policies of a zone with the given claims total.
Policies(zone, province, gender, premium, claims, n) ==
    [cell |-> ("maincrestazone" :> zone) @@ ("province" :> province)
              @@ ("gender" :> gender) @@ ("totalpremium" :> premium)
              @@ ("totalclaims" :> claims),
     n |-> n]

ZoneProvince ==
    ("Z1" :> "Gauteng") @@ ("Z2" :> "KwaZulu-Natal")
    @@ ("Z3" :> "Western Cape") @@ ("Z4" :> "KwaZulu-Natal")

ZoneGender ==
    ("Z1" :> "Male") @@ ("Z2" :> "Male") @@ ("Z3" :> "Male") @@ ("Z4" :> "Female")

\* How many policies with a claim, and how many without, a zone may hold.
Size(claims, rest) == [claims |-> claims, rest |-> rest]

ZoneSizes ==
    ("Z1" :> {Size(4, 20), Size(12, 3), Size(12, 20)})
    @@ ("Z2" :> {Size(4, 20), Size(12, 0)})
    @@ ("Z3" :> {Size(12, 0), Size(12, 20)})
    @@ ("Z4" :> {Size(0, 0), Size(12, 0), Size(12, 20)})

\* The cleaned data handed to HypothesisTesting: per zone its policies with
\* a claim and without, then policies the constructor is to filter out,
\* with or without the maincrestazone column.
HTData(sizes, hasZone) ==
    LET all == <<Policies("Z1", ZoneProvince["Z1"], ZoneGender["Z1"], 100, 50, sizes["Z1"].claims),
                 Policies("Z1", ZoneProvince["Z1"], ZoneGender["Z1"], 100, 0, sizes["Z1"].rest),
                 Policies("Z2", ZoneProvince["Z2"], ZoneGender["Z2"], 100, 50, sizes["Z2"].claims),
                 Policies("Z2", ZoneProvince["Z2"], ZoneGender["Z2"], 100, 0, sizes["Z2"].rest),
                 Policies("Z3", ZoneProvince["Z3"], ZoneGender["Z3"], 100, 50, sizes["Z3"].claims),
                 Policies("Z3", ZoneProvince["Z3"], ZoneGender["Z3"], 100, 0, sizes["Z3"].rest),
                 Policies("Z4", ZoneProvince["Z4"], ZoneGender["Z4"], 100, 50, sizes["Z4"].claims),
                 Policies("Z4", ZoneProvince["Z4"], ZoneGender["Z4"], 100, 0, sizes["Z4"].rest),
                 Policies("Z3", "Limpopo", "Female", 0, 50, 12),
                 Policies("Z3", "Limpopo", "Female", 100, 0 - 50, 12)>>
        some == SelectSeq(all, LAMBDA r : r.n > 0)
        cols == {"province", "gender", "totalpremium", "totalclaims"}
                \cup IF hasZone THEN {"maincrestazone"} ELSE {}
    IN  HTFrame(cols, [i \in DOMAIN some |->
                          [cell |-> [c \in cols |-> some[i].cell[c]],
                           n |-> some[i].n]])

HTInputs ==
    {HTData(("Z1" :> s1) @@ ("Z2" :> s2) @@ ("Z3" :> s3) @@ ("Z4" :> s4), hasZone) :
        s1 \in ZoneSizes["Z1"], s2 \in ZoneSizes["Z2"], s3 \in ZoneSizes["Z3"],
        s4 \in ZoneSizes["Z4"], hasZone \in BOOLEAN}

\* A HypothesisTesting object constructed on cleaned data; the loader that
\* produced the data takes no further step.
InitHT ==
    /\ file_path = TxtPath
    /\ file = [exists |-> TRUE, lines |-> <<PipeLine>>, sep |-> "|", table |-> None]
    /\ data = None
    /\ delimiter = "None"
    /\ disk = NoFile
    /\ ret = ReturnedNone
    /\ err = "none"
    /\ op = "__init__"
    /\ pre = None
    /\ read_sep = "None"
    /\ detect_ran = FALSE
    /\ arg = 0
    /\ \E d \in HTInputs : ht = HTObject(d)
    /\ csm = NoModel

NextHT == HTNext

SpecHT == InitHT /\ [][NextHT]_vars

\* The filename arguments of save_results: the default and another one.
Filenames == {"hypothesis_test_results.csv", "results.csv"}

\* save_results: run_hypothesis_tests, whose exception ends the call; then
\* makedirs('reports', exist_ok=True); then to_csv to '../reports/<filename>',
\* which raises OSError when that directory does not exist; then the message
\* naming 'reports/<filename>'.  The object records the directories it
\* ensured, the path the write targeted and the path the message named.
SaveResults ==
    \E filename \in Filenames, pv \in PAssignments, fisherRaises \in BOOLEAN :
        \E r \in {run_hypothesis_tests(ht.data, pv, fisherRaises)} :
            /\ ~ht.none
            /\ op' = "save_results"
            /\ ret' = ReturnedNone
            /\ arg' = arg
            /\ IF r.err # "none"
               THEN /\ err' = r.err
                    /\ ht' = [ht EXCEPT !.data = r.data, !.before = ht.data,
                                        !.args = <<filename>>,
                                        !.reached = r.reached,
                                        !.target = NoPath, !.message = NoPath]
               ELSE /\ err' = IF "../reports" \in ht.dirs THEN "none" ELSE "OSError"
                    /\ ht' = [ht EXCEPT
                                !.data = r.data, !.before = ht.data,
                                !.args = <<filename>>, !.reached = r.reached,
                                !.dirs = @ \cup {"reports"},
                                !.made = @ \cup {"reports"},
                                !.target = Path("../reports", filename),
                                !.message =
                                    IF "../reports" \in ht.dirs
                                    THEN Path("reports", filename)
                                    ELSE NoPath]
            /\ UNCHANGED <<file_path, file, data, delimiter, disk, pre,
                           read_sep, detect_ran, csm>>

\* The data of the objects save_results is followed on: those of HTInputs
\* with Z3 holding claims only.
SaveInputs ==
    {HTData(("Z1" :> s1) @@ ("Z2" :> s2) @@ ("Z3" :> Size(12, 0)) @@ ("Z4" :> s4),
            hasZone) :
        s1 \in ZoneSizes["Z1"], s2 \in ZoneSizes["Z2"],
        s4 \in {Size(0, 0), Size(12, 20)}, hasZone \in BOOLEAN}

\* A HypothesisTesting object in a working directory where reports and
\* ../reports exist or do not.
InitSave ==
    /\ file_path = TxtPath
    /\ file = [exists |-> TRUE, lines |-> <<PipeLine>>, sep |-> "|", table |-> None]
    /\ data = None
    /\ delimiter = "None"
    /\ disk = NoFile
    /\ ret = ReturnedNone
    /\ err = "none"
    /\ op = "__init__"
    /\ pre = None
    /\ read_sep = "None"
    /\ detect_ran = FALSE
    /\ arg = 0
    /\ csm = NoModel
    /\ \E d \in SaveInputs, e \in SUBSET {"reports", "../reports"} :
          ht = [HTObject(d) EXCEPT !.dirs = @ \cup e]

NextSave ==
    \/ RunHypothesisTests
    \/ SaveResults

SpecSave == InitSave /\ [][NextSave]_vars

-----------------------------------------------------------------------------
(* ClaimSeverityModel (modeling.py).                                       *)
(*                                                                         *)
(* Its data is a DataFrame of row classes as above.  The models and their  *)
(* metrics are library objects: a model is its name and whether it was     *)
(* fitted, a metric the value the fixed random_state gives it.             *)

\* How many times evaluate_models is followed in a behaviour.
MaxEvaluations == 2

\* The columns prepare_data reads without asking whether they are there.
features ==
    {"province", "postalcode", "gender", "vehicletype", "cubiccapacity",
     "registrationyear", "covertype", "maritalstatus", "suminsured"}

\* The keys of self.models in insertion order.
ModelNames == <<"Linear Regression", "Random Forest", "XGBoost">>

NoSplit == [none |-> TRUE]

\* __init__: a copy of the data, no models, no results, no split, and the
\* three directories.
ClaimSeverityModel(df) ==
    [none |-> FALSE, data |-> df, models |-> <<>>, fitted |-> FALSE,
     results |-> <<>>, split |-> NoSplit, report |-> "absent",
     made |-> {"models", "reports", "plots"}]

\* train_test_split(test_size=0.2) of n samples: ceil(0.2 n) test samples,
\* the rest to train.
TestSize(n) == (2 * n + 9) \div 10

\* prepare_data: the split of the rows with a claim, or the exception: a
\* column that is not there, the mode of a column without rows, a split
\* that leaves no row to train on.
prepare_data(df) ==
    LET claims == IF "totalclaims" \in df.cols
                  THEN RowCount(SelectSeq(df.rows,
                                          LAMBDA r : r.cell["totalclaims"] > 0))
                  ELSE 0
    IN  IF (features \cup {"totalclaims"}) \ df.cols # {}
        THEN [err |-> "KeyError", split |-> NoSplit]
        ELSE IF claims = 0
        THEN [err |-> "KeyError", split |-> NoSplit]
        ELSE IF claims - TestSize(claims) = 0
        THEN [err |-> "ValueError", split |-> NoSplit]
        ELSE [err |-> "none",
              split |-> [none |-> FALSE, train |-> claims - TestSize(claims),
                         test |-> TestSize(claims)]]

\* One call on the ClaimSeverityModel object.
ModelCall(name, error, object) ==
    /\ ~csm.none
    /\ op' = name
    /\ ret' = ReturnedNone
    /\ err' = error
    /\ csm' = object
    /\ UNCHANGED <<file_path, file, data, delimiter, disk, pre, read_sep,
                   detect_ran, arg, ht>>

PrepareData ==
    \E r \in {prepare_data(csm.data)} :
        ModelCall("prepare_data", r.err,
                  IF r.err = "none" THEN [csm EXCEPT !.split = r.split] ELSE csm)

\* What fit raises when X_train is None depends on the library build.
FitNoneErrors == {"ValueError", "TypeError"}

\* train_models: the three entries of self.models are replaced by new
\* models, then each is fitted; without a split the first fit raises and
\* leaves the new models unfitted.
TrainModels ==
    IF csm.split.none
    THEN \E e \in FitNoneErrors :
            ModelCall("train_models", e,
                      [csm EXCEPT !.models = ModelNames, !.fitted = FALSE])
    ELSE ModelCall("train_models", "none",
                   [csm EXCEPT !.models = ModelNames, !.fitted = TRUE])

\* The value of a metric of a model on the test set.
Metric(kind, name) == <<kind, name>>

\* The entry evaluate_models appends for a model.
Entry(name) ==
    [Model |-> name, RMSE |-> Metric("RMSE", name),
     R_squared |-> Metric("R-squared", name)]

\* self.results after the loop of evaluate_models over the models.
Evaluated(results, models) ==
    results \o [k \in DOMAIN models |-> Entry(models[k])]

\* evaluate_models: predict of a model that was not fitted raises before
\* anything is appended; else an entry per model is appended to
\* self.results and the whole list is written to reports/model_results.csv.
EvaluateModels ==
    /\ Len(csm.results) < Len(ModelNames) * MaxEvaluations
    /\ IF csm.models # <<>> /\ ~csm.fitted
       THEN ModelCall("evaluate_models", "NotFittedError", csm)
       ELSE ModelCall("evaluate_models", "none",
                      [csm EXCEPT !.results = Evaluated(csm.results, csm.models),
                                  !.report = Evaluated(csm.results, csm.models)])

ModelNext ==
    \/ PrepareData
    \/ TrainModels
    \/ EvaluateModels

\* n rows of cleaned data with the given claims total.
ModelRows(cols, claims, n) ==
    [cell |-> [c \in cols |-> IF c = "totalclaims" THEN claims ELSE "x"], n |-> n]

\* The cleaned data handed to ClaimSeverityModel: some policies with a
\* claim and some without, with the feature columns or without postalcode.
ModelData(cols, claims, rest) ==
    HTFrame(cols, SelectSeq(<<ModelRows(cols, 50, claims), ModelRows(cols, 0, rest)>>,
                            LAMBDA r : r.n > 0))

ModelInputs ==
    {ModelData(cols, claims, rest) :
        cols \in {features \cup {"totalclaims", "title"},
                  (features \ {"postalcode"}) \cup {"totalclaims", "title"}},
        claims \in {0, 1, 2, 5, 10},
        rest \in {0, 3}}

\* A ClaimSeverityModel constructed on cleaned data; the loader takes no
\* further step and there is no HypothesisTesting object.
InitModel ==
    /\ file_path = TxtPath
    /\ file = [exists |-> TRUE, lines |-> <<PipeLine>>, sep |-> "|", table |-> None]
    /\ Constructed
    /\ \E d \in ModelInputs : csm = ClaimSeverityModel(d)

NextModel == ModelNext

SpecModel == InitModel /\ [][NextModel]_vars

-----------------------------------------------------------------------------
(* Properties of the DataLoader. *)

HasIdx(df, idx) == \E i \in Positions(df) : df.rows[i].idx = idx

RowAt(df, idx) == df.rows[CHOOSE i \in Positions(df) : df.rows[i].idx = idx]

Min(a, b) == IF a < b THEN a ELSE b

HasDuplicates(df) ==
    \E i, j \in Positions(df) : i < j /\ df.rows[i].cell = df.rows[j].cell

\* C1: the cleaned dataset clean_data saves and returns holds no two rows
\* that are identical in every column.
C1_NoDuplicateRowsAfterClean ==
    (op = "clean_data" /\ err = "none")
        => ~HasDuplicates(ret.df) /\ ~HasDuplicates(disk)

WasMissingGender(cell) == cell["gender"] \in {NaN, "Not specified"}

\* C2: after impute_gender_from_title on data with gender and title, every
\* remaining row whose gender was missing or 'Not specified' has gender Male
\* under title Mr and Female under Mrs, Ms or Miss; the rows with title Dr
\* and a missing gender are removed, no other row is; a row that had a
\* specified gender keeps it.
C2_GenderImputedFromTitle ==
    (op = "impute_gender_from_title" /\ ~pre.none
     /\ {"gender", "title"} \subseteq pre.cols)
        => /\ err = "none"
           /\ \A j \in Positions(data) : HasIdx(pre, data.rows[j].idx)
           /\ \A i \in Positions(pre) :
                LET was == pre.rows[i].cell
                    idx == pre.rows[i].idx
                    dropped == WasMissingGender(was) /\ was["title"] = "Dr"
                IN  /\ HasIdx(data, idx) <=> ~dropped
                    /\ ~dropped =>
                         LET now == RowAt(data, idx).cell
                         IN  /\ now["title"] = was["title"]
                             /\ (WasMissingGender(was) /\ was["title"] = "Mr")
                                   => now["gender"] = "Male"
                             /\ (WasMissingGender(was)
                                 /\ was["title"] \in {"Mrs", "Ms", "Miss"})
                                   => now["gender"] = "Female"
                             /\ ~WasMissingGender(was)
                                   => now["gender"] = was["gender"]

\* C2 happens: a row with a missing gender and title Mr was given Male while
\* a row with title Dr and a missing gender was removed.
C2_Witness ==
    /\ op = "impute_gender_from_title"
    /\ ~pre.none
    /\ {"gender", "title"} \subseteq pre.cols
    /\ \E i, k \in Positions(pre) :
          /\ WasMissingGender(pre.rows[i].cell)
          /\ pre.rows[i].cell["title"] = "Mr"
          /\ HasIdx(data, pre.rows[i].idx)
          /\ RowAt(data, pre.rows[i].idx).cell["gender"] = "Male"
          /\ WasMissingGender(pre.rows[k].cell)
          /\ pre.rows[k].cell["title"] = "Dr"
          /\ ~HasIdx(data, pre.rows[k].idx)

\* C3: given the five required columns, impute_totalpremium replaces
\* totalpremium on every row where it is missing or zero, termfrequency is
\* Monthly or Annual and transactionmonth parses as a date: with
\* calculatedpremiumperterm / 1.14 when isvatregistered is true, with
\* calculatedpremiumperterm when it is false.
C3_PremiumImputedWhereMissingOrZero ==
    (op = "impute_totalpremium" /\ err = "none" /\ ~pre.none
     /\ required_cols \subseteq pre.cols)
        => \A i \in Positions(pre) :
             LET was == pre.rows[i].cell
                 now == RowAt(data, pre.rows[i].idx).cell
             IN  (/\ was["totalpremium"] \in {NaNum, Num(0)}
                  /\ was["termfrequency"] \in {"Monthly", "Annual"}
                  /\ ToDatetime(was["transactionmonth"]) # "NaT")
                    => /\ was["isvatregistered"] = "True"
                            => now["totalpremium"]
                                 = DivVat(was["calculatedpremiumperterm"])
                       /\ was["isvatregistered"] = "False"
                            => now["totalpremium"] = was["calculatedpremiumperterm"]

\* Data on which no step but a missing column can stand in the way: it has
\* rows, and an accounttype column, if any, has a value to take the mode of.
Cleanable(df) ==
    /\ ~df.none
    /\ Len(df.rows) > 0
    /\ "accounttype" \in df.cols
          => \E i \in Positions(df) : ~IsNA("accounttype", df.rows[i].cell["accounttype"])

\* C7: whatever columns the loaded data lacks, clean_data finishes (saves
\* and returns the cleaned data) without raising; impute_totalpremium
\* completes without error whenever its five required columns are present.
C7_MissingColumnsNeverRaise ==
    /\ (op = "clean_data" /\ Cleanable(pre))
          => err = "none" /\ ~disk.none /\ ret.df = read_saved(disk)
    /\ (op = "impute_totalpremium" /\ Cleanable(pre) /\ required_cols \subseteq pre.cols)
          => err = "none"

\* C8: on a loader whose data is None, clean_data and save_cleaned_data
\* raise ValueError, write no file and leave data and delimiter unchanged.
C8_NoDataCallsRaiseValueError ==
    [][(data.none /\ op' \in {"clean_data", "save_cleaned_data"})
          => /\ err' = "ValueError"
             /\ disk' = disk
             /\ data' = data
             /\ delimiter' = delimiter]_vars

\* C8 happens: save_cleaned_data was called on a loader without data, after
\* a load_data that failed or none at all.
C8_Witness ==
    /\ op = "save_cleaned_data"
    /\ pre.none
    /\ err = "ValueError"
    /\ disk.none

\* Whether position j of the line survives str.strip().
InStripped(line, j) ==
    /\ \E a \in 1..j : line[a] \notin Whitespace
    /\ \E b \in j..Len(line) : line[b] \notin Whitespace

\* The fields separator d makes of the first n stripped lines of the file,
\* a line past the end of the file being one empty field.
FieldTotal(d, n) ==
    n + Cardinality(UNION {{<<i, j>> : j \in {j \in 1..Len(file.lines[i]) :
                                                /\ file.lines[i][j] = d
                                                /\ InStripped(file.lines[i], j)}}
                           : i \in 1..Min(n, Len(file.lines))})

\* C9: detect_delimiter returns and stores the candidate with the largest
\* total number of fields over the first sample_lines stripped lines, the
\* earliest candidate on a tie; so it always yields one of the five.
C9_DelimiterHasMostFields ==
    (op \in {"detect_delimiter", "load_data"} /\ detect_ran /\ file.exists)
        => \E k \in DOMAIN delimiters :
             /\ delimiter = delimiters[k]
             /\ op = "detect_delimiter" => ret.str = delimiter /\ err = "none"
             /\ \A m \in DOMAIN delimiters :
                   /\ FieldTotal(delimiters[m], arg) <= FieldTotal(delimiters[k], arg)
                   /\ m < k => FieldTotal(delimiters[m], arg)
                                 < FieldTotal(delimiters[k], arg)

\* C9 happens: over the default 10 lines pipe and semicolon tie above the
\* rest, and pipe, the earlier, is detected.
C9_Witness ==
    /\ op = "detect_delimiter"
    /\ err = "none"
    /\ arg = DefaultSampleLines
    /\ delimiter = "|"
    /\ FieldTotal("|", arg) = FieldTotal(";", arg)
    /\ FieldTotal(",", arg) < FieldTotal("|", arg)

\* C10: on a path ending in '.csv' load_data parses the file with ',' and
\* runs no delimiter detection; on any other path it parses with the
\* detected delimiter.
C10_CsvParsedWithComma ==
    (op = "load_data" /\ file.exists)
        => IF EndsWithCsv(file_path)
           THEN read_sep = "," /\ ~detect_ran
           ELSE read_sep = delimiter /\ \E k \in DOMAIN delimiters :
                                           delimiter = delimiters[k]

-----------------------------------------------------------------------------
(* Properties of HypothesisTesting. *)

\* The Benjamini-Hochberg adjustment of the i-th of the p-values ps: the
\* least, over the p-values t no smaller than it, of t scaled by the number
\* of p-values over the number of p-values up to t; at most 1.
BenjaminiHochberg(ps, i) ==
    FracMin({One} \cup
            {Frac(ps[j][1] * Len(ps),
                  ps[j][2] * Cardinality({l \in DOMAIN ps : ~FracLess(ps[j], ps[l])})) :
                j \in {j \in DOMAIN ps : ~FracLess(ps[j], ps[i])}})

\* C4: every row of the table run_hypothesis_tests returns is a completed
\* test, never a None entry, and carries the p_value_adjusted that the
\* Benjamini-Hochberg correction over all the p-values of that table gives
\* it, on every path through the method.
C4_EveryRowAdjusted ==
    (op = "run_hypothesis_tests" /\ err = "none")
        => \A i \in DOMAIN ret.table :
             /\ ret.table[i] # NoResult
             /\ "p_value_adjusted" \in DOMAIN ret.table[i]
             /\ ret.table[i].p_value_adjusted
                  = BenjaminiHochberg([k \in DOMAIN ret.table |-> ret.table[k].p_value], i)

\* The rows of a frame in a group with a has_claim value.
CountIn(df, group_col, group, has_claim) ==
    RowCount(SelectSeq(df.rows, LAMBDA r : /\ r.cell[group_col] = group
                                           /\ r.cell["has_claim"] = has_claim))

RiskGroups == {"High Risk", "Low Risk"}

\* The has_claim values that occur in the zones of a risk group.
ZoneOutcomes ==
    {h \in {0, 1} : \E g \in RiskGroups : CountIn(ht.data, "zone_group", g, h) > 0}

\* chi_squared_test accepts the zone sample: policies with and without a
\* claim occur, and every risk group that has rows has 5 or more of each.
ZoneChiAccepts ==
    /\ ZoneOutcomes = {0, 1}
    /\ \A g \in RiskGroups, h \in {0, 1} :
          (\E k \in {0, 1} : CountIn(ht.data, "zone_group", g, k) > 0)
              => CountIn(ht.data, "zone_group", g, h) >= MinExpected

\* The claim_frequency results of the zone comparison in the returned table.
ZoneFrequencyRows ==
    {i \in DOMAIN ret.table :
        /\ ret.table[i].metric = "claim_frequency"
        /\ ret.table[i].group_a = "High Risk"
        /\ ret.table[i].group_b = "Low Risk"}

C6_NoneUnlessFourCounts ==
    (op = "chi_squared_test" /\ err = "none")
        => LET sufficient ==
                   \A g \in {ht.args[2], ht.args[3]}, h \in {0, 1} :
                       CountIn(ht.before, ht.args[1], g, h) >= MinExpected
           IN  IF sufficient
               THEN ret.result.test = "Chi-Squared"
               ELSE ret.result = NoResult

-----------------------------------------------------------------------------
(* Properties of load_data and of the single cleaning steps. *)

\* C11: load_data raises FileNotFoundError for an input file that does not
\* exist and a generic Exception for any other failure of detection or
\* parsing, and leaves data as it was in both cases; a file that has lines
\* and merely lacks expected columns loads.
C11_LoadFailuresLeaveData ==
    op = "load_data"
        => /\ err \in {"none", "FileNotFoundError", "Exception"}
           /\ ~file.exists => err = "FileNotFoundError"
           /\ (file.exists /\ err # "none") => err = "Exception"
           /\ err # "none" => data = pre /\ ret = ReturnedNone
           /\ (file.exists /\ file.lines # <<>> /\ read_sep # "None")
                 => err = "none" /\ ~data.none /\ ret.df = data

\* Whether a cell holds a missing value of any type.
Missing(v) == v \in {"NaN", "NaT", <<>>}

\* The index labels of a frame in row order.
Labels(df) == [i \in Positions(df) |-> df.rows[i].idx]

\* C12: drop_rows_with_missing_vehicle_info leaves the data unchanged when
\* one of its 11 required columns is absent; otherwise it removes exactly
\* the rows with a missing value in one of those columns and keeps the
\* others, unchanged and in order.
C12_VehicleRowsAllOrNothing ==
    (op = "drop_rows_with_missing_vehicle_info" /\ ~pre.none)
        => /\ err = "none"
           /\ IF required_vehicle_cols \ pre.cols # {}
              THEN data = pre
              ELSE LET complete ==
                           {i \in Positions(pre) :
                               \A c \in required_vehicle_cols :
                                   ~Missing(pre.rows[i].cell[c])}
                   IN  /\ data.cols = pre.cols
                       /\ data.rows = KeepAt(pre.rows, complete)

\* C12 happens: with the 11 columns there, a row with a missing value was
\* removed and a complete row kept.
C12_Witness ==
    /\ op = "drop_rows_with_missing_vehicle_info"
    /\ ~pre.none
    /\ required_vehicle_cols \subseteq pre.cols
    /\ Len(data.rows) = 1
    /\ Len(pre.rows) = 2
    /\ \E i \in Positions(pre), c \in required_vehicle_cols :
          Missing(pre.rows[i].cell[c])

\* What clean_data hands to handle_remaining_missing_values when it is
\* called on df: df after the steps before it.
PassedToFill(df) ==
    drop_sparse_columns(
        drop_rows_with_missing_vehicle_info(
            DropMissingNewVehicle(
                impute_gender_from_title(MapTermFrequency(DropDuplicates(df))))))

\* C13: on every dataset clean_data can pass to it, zero rows and an
\* accounttype column without any value included,
\* handle_remaining_missing_values completes, and then bank, accounttype
\* and capitaloutstanding, where present, have no missing value: bank is
\* filled with 'Unknown', accounttype with its most frequent value,
\* capitaloutstanding with 0, and values that were there are unchanged.
C13_FillPolicyCompletes ==
    (op = "handle_remaining_missing_values" /\ ~pre.none /\ PassedToFill(pre) = pre)
        => /\ err = "none"
           /\ data.cols = pre.cols
           /\ Labels(data) = Labels(pre)
           /\ \A i \in Positions(pre), c \in pre.cols :
                 LET was == pre.rows[i].cell[c]
                     now == data.rows[i].cell[c]
                 IN  IF c \in {"bank", "accounttype", "capitaloutstanding"} /\ Missing(was)
                     THEN /\ c = "bank" => now = "Unknown"
                          /\ c = "capitaloutstanding" => now = Num(0)
                          /\ c = "accounttype" =>
                                /\ ~Missing(now)
                                /\ \A v \in {pre.rows[k].cell[c] : k \in Positions(pre)} :
                                      Missing(v) \/ CountOf(pre, c, v) <= CountOf(pre, c, now)
                     ELSE now = was

-----------------------------------------------------------------------------
(* Further properties of HypothesisTesting. *)

\* C15: from construction on and after any calls, every row of the data of
\* HypothesisTesting has totalpremium > 0 and totalclaims >= 0, has_claim 1
\* exactly when totalclaims > 0 and else 0, and margin = totalpremium -
\* totalclaims; the DataFrame passed to the constructor is never modified:
\* it keeps its columns and its rows, those the constructor filtered out
\* included.
C15_DataInvariant ==
    /\ [](\A i \in DOMAIN ht.data.rows :
            LET cell == ht.data.rows[i].cell
            IN  /\ cell["totalpremium"] > 0
                /\ cell["totalclaims"] >= 0
                /\ cell["has_claim"] = IF cell["totalclaims"] > 0 THEN 1 ELSE 0
                /\ cell["margin"] = cell["totalpremium"] - cell["totalclaims"])
    /\ []({"has_claim", "margin", "zone_group"} \cap ht.passed.cols = {})
    /\ [][ht'.passed = ht.passed]_vars

\* C15 happens: run_hypothesis_tests has written the zone_group column
\* into the data, and the DataFrame passed holds rows the object does not.
C15_Witness ==
    /\ op = "run_hypothesis_tests"
    /\ "zone_group" \in ht.data.cols
    /\ "zone_group" \notin ht.before.cols
    /\ RowCount(ht.passed.rows) > RowCount(ht.data.rows)

\* The zones of the data before the call with more than 10 claims.
ClaimZones ==
    {z \in Present(ht.before.rows, "maincrestazone") :
        CountIn(ht.before, "maincrestazone", z, 1) > MinClaims}

\* The zones whose rows the call labelled with a risk group.
ZonesOf(group) ==
    {ht.data.rows[i].cell["maincrestazone"] :
        i \in {i \in DOMAIN ht.data.rows : ht.data.rows[i].cell["zone_group"] = group}}

\* Zone a has a claim frequency no smaller than zone b.
FrequencyAtLeast(a, b) ==
    CountIn(ht.before, "maincrestazone", a, 1)
        * (CountIn(ht.before, "maincrestazone", b, 0)
           + CountIn(ht.before, "maincrestazone", b, 1))
    >= CountIn(ht.before, "maincrestazone", b, 1)
        * (CountIn(ht.before, "maincrestazone", a, 0)
           + CountIn(ht.before, "maincrestazone", a, 1))

\* C16: whenever run_hypothesis_tests finds 2 or more zones with more than
\* 10 claims, the High Risk and the Low Risk group each get a zone, no zone
\* is in both, only zones with more than 10 claims are in one, and every
\* High Risk zone has a claim frequency no smaller than every Low Risk zone.
C16_RiskSegments ==
    (/\ op = "run_hypothesis_tests"
     /\ "maincrestazone" \in ht.before.cols
     /\ Cardinality(ClaimZones) >= 2)
        => /\ "zone_group" \in ht.data.cols
           /\ ZonesOf("High Risk") # {}
           /\ ZonesOf("Low Risk") # {}
           /\ ZonesOf("High Risk") \cap ZonesOf("Low Risk") = {}
           /\ ZonesOf("High Risk") \cup ZonesOf("Low Risk") \subseteq ClaimZones
           /\ \A a \in ZonesOf("High Risk"), b \in ZonesOf("Low Risk") :
                 FrequencyAtLeast(a, b)

-----------------------------------------------------------------------------
(* Properties of ClaimSeverityModel. *)

\* The entries of a results list for a model name.
EntriesFor(results, name) == {k \in DOMAIN results : results[k].Model = name}

\* C17: after any calls of prepare_data, train_models and evaluate_models
\* the results list, and the reports/model_results.csv written from it,
\* holds at most one entry per model name, and after evaluate_models exactly
\* one entry for each model in self.models.
C17_OneEntryPerModel ==
    ~csm.none
        => /\ \A k \in DOMAIN ModelNames :
                 /\ Cardinality(EntriesFor(csm.results, ModelNames[k])) <= 1
                 /\ csm.report # "absent"
                       => Cardinality(EntriesFor(csm.report, ModelNames[k])) <= 1
           /\ (op = "evaluate_models" /\ err = "none")
                 => /\ csm.report = csm.results
                    /\ \A k \in DOMAIN csm.models :
                          Cardinality(EntriesFor(csm.results, csm.models[k])) = 1

-----------------------------------------------------------------------------
(* Properties of save_results. *)

\* C18: save_results writes the results file into the reports directory it
\* created beforehand and that its message names, reports/<filename>: a call
\* that comes to the write targets a directory the object ensured, the write
\* succeeds, and the message names the path that was written.
C18_WritesWhereItEnsured ==
    (op = "save_results" /\ ~ht.none /\ ~ht.target.none)
        => /\ ht.target.dir \in ht.made
           /\ ht.target.dir = "reports"
           /\ err = "none"
           /\ ht.message = ht.target
====
